---- MODULE Spec2Model ----
(***************************************************************************)
(* Package assembly and parsing of docx-rs: the Docx aggregate, its write  *)
(* protocol (Docx::write), the extractor (DocxFile::from_reader) and the   *)
(* parse step (DocxFile::parse), from src/docx/src/docx.rs.                *)
(*                                                                         *)
(* Option<T> is a sequence of length 0 (None) or 1 (Some(x)).  An XML text *)
(* is a record [root, children]; a zip archive is a sequence of entries.   *)
(***************************************************************************)
EXTENDS Integers, Sequences, FiniteSets, TLC

VARIABLES
    docx,    \* the Docx aggregate the caller holds
    pre,     \* the aggregate as it was when the last write was called
    zip,     \* the destination of the last write: the entries written
    wres,    \* result of the last write: "none", "ok" or the error
    src,     \* the archive handed to the last from_reader
    file,    \* Option<DocxFile>: the extraction buffer of the last from_reader
    rres,    \* result of the last from_reader: "none", "ok" or the error
    pres,    \* result of the last parse: "none", "ok" or the error
    lastOp,  \* the operation executed last
    writes,  \* how many times write was called
    streak,  \* the successful writes in a row on one aggregate: how many, and
             \* the aggregate before the first of them
    prev     \* the aggregate as it was when the last operation was called

vars == <<docx, pre, zip, wres, src, file, rres, pres, lastOp, writes, streak, prev>>

----------------------------------------------------------------------------
(* Bounds of the model *)

\* write is called at most this many times
MaxWrites == 2
\* insert_para is enabled while the body holds fewer paragraphs than this
MaxParas == 1
\* insert_style / create_style are enabled while fewer styles than this are held
MaxStyles == 1
MaxHeld == 3

----------------------------------------------------------------------------
(* Option *)

None == <<>>
Some(x) == <<x>>
IsSome(o) == Len(o) = 1
IsNone(o) == Len(o) = 0
Unwrap(o) == o[1]

Range(s) == {s[i] : i \in 1..Len(s)}

----------------------------------------------------------------------------
(* Schema constants imported at docx.rs:14-16 and the fixed archive paths *)

SCHEMA_CORE == "SCHEMA_CORE"
SCHEMA_FONT_TABLE == "SCHEMA_FONT_TABLE"
SCHEMA_OFFICE_DOCUMENT == "SCHEMA_OFFICE_DOCUMENT"
SCHEMA_REL_EXTENDED == "SCHEMA_REL_EXTENDED"
SCHEMA_STYLES == "SCHEMA_STYLES"

P_CONTENT_TYPES == "[Content_Types].xml"
P_APP == "docProps/app.xml"
P_CORE == "docProps/core.xml"
P_DOCUMENT == "word/document.xml"
P_STYLES == "word/styles.xml"
P_FONT_TABLE == "word/fontTable.xml"
P_RELS == "_rels/.rels"
P_DOCUMENT_RELS == "word/_rels/document.xml.rels"

RequiredPaths == {P_CONTENT_TYPES, P_DOCUMENT, P_RELS}
OptionalPaths == {P_APP, P_CORE, P_FONT_TABLE, P_STYLES, P_DOCUMENT_RELS}

----------------------------------------------------------------------------
(* Relationships graph (crate::rels, not among the sources): an ordered    *)
(* sequence of [id, target, ty]; ids are the tokens rId<n>, held as n.     *)

MaxOf(S) == CHOOSE m \in S : \A x \in S : x <= m

RelIds(rels) == {rels[i].id : i \in 1..Len(rels)}

\* add_rel with the id taken from the position of the new entry
add_rel_by_len(rels, schema, target) ==
    Append(rels, [id |-> Len(rels) + 1, target |-> target, ty |-> schema])

\* add_rel allocates the next unused id and appends the relationship
add_rel(rels, schema, target) ==
    LET next == IF rels = <<>> THEN 1 ELSE MaxOf(RelIds(rels)) + 1
    IN  Append(rels, [id |-> next, target |-> target, ty |-> schema])

RelationshipsDefault == <<>>

----------------------------------------------------------------------------
(* The Part capability (strong_xml XmlWrite / XmlRead of each part, not    *)
(* among the sources): serialize to an XML text, parse an XML text back.   *)

Malformed == [root |-> "#malformed", children |-> <<>>]

Ok(v) == [ok |-> TRUE, val |-> Some(v)]
Err == [ok |-> FALSE, val |-> None]

EscapeChar(c) ==
    CASE c = "&" -> "&amp;"
      [] c = "<" -> "&lt;"
      [] c = ">" -> "&gt;"
      [] c = "\"" -> "&quot;"
      [] OTHER -> c

UnescapeChar(c) ==
    CASE c = "&amp;" -> "&"
      [] c = "&lt;" -> "<"
      [] c = "&gt;" -> ">"
      [] c = "&quot;" -> "\""
      [] OTHER -> c

\* a raw markup character inside character data is not well-formed
RawMarkup == {"&", "<"}

Escape(s) == [i \in 1..Len(s) |-> EscapeChar(s[i])]
Unescape(s) == [i \in 1..Len(s) |-> UnescapeChar(s[i])]

XmlWriteRels(rels) ==
    [root |-> "Relationships",
     children |-> [i \in 1..Len(rels) |-> <<rels[i].id, rels[i].target, rels[i].ty>>]]

RelsFromStr(t) ==
    IF t.root # "Relationships" THEN Err
    ELSE Ok([i \in 1..Len(t.children) |->
                [id |-> t.children[i][1], target |-> t.children[i][2],
                 ty |-> t.children[i][3]]])

XmlWriteDocument(document) ==
    [root |-> "w:document",
     children |-> [i \in 1..Len(document) |-> Escape(document[i])]]

DocumentFromStr(t) ==
    IF t.root # "w:document" THEN Err
    ELSE IF \E i \in 1..Len(t.children) : Range(t.children[i]) \cap RawMarkup # {}
         THEN Err
    ELSE Ok([i \in 1..Len(t.children) |-> Unescape(t.children[i])])

XmlWriteStyles(styles) ==
    [root |-> "w:styles",
     children |-> [i \in 1..Len(styles) |-> <<"w:style", styles[i]>>]]

StylesFromStr(t) ==
    IF t.root # "w:styles" THEN Err
    ELSE Ok([i \in 1..Len(t.children) |-> t.children[i][2]])

XmlWriteApp(app) == [root |-> "Properties", children |-> <<app>>]
AppFromStr(t) == IF t.root # "Properties" THEN Err ELSE Ok(t.children[1])

XmlWriteCore(core) == [root |-> "cp:coreProperties", children |-> <<core>>]
CoreFromStr(t) == IF t.root # "cp:coreProperties" THEN Err ELSE Ok(t.children[1])

XmlWriteFontTable(ft) == [root |-> "w:fonts", children |-> <<ft>>]
FontTableFromStr(t) == IF t.root # "w:fonts" THEN Err ELSE Ok(t.children[1])

\* ContentTypes: [defaults: seq of <<extension, type>>, overrides: seq of <<path, type>>]
XmlWriteContentTypes(ct) ==
    [root |-> "Types",
     children |->
        [i \in 1..Len(ct.defaults) |-> <<"Default", ct.defaults[i][1], ct.defaults[i][2]>>]
        \o [i \in 1..Len(ct.overrides) |->
                <<"Override", ct.overrides[i][1], ct.overrides[i][2]>>]]

ContentTypesFromStr(t) ==
    IF t.root # "Types" THEN Err
    ELSE LET tagged(tag) == SelectSeq(t.children, LAMBDA c : c[1] = tag)
             strip(s) == [i \in 1..Len(s) |-> <<s[i][2], s[i][3]>>]
         IN  Ok([defaults |-> strip(tagged("Default")),
                 overrides |-> strip(tagged("Override"))])

\* ContentTypes::default(): the registry of a new aggregate
ContentTypesDefault ==
    [defaults |-> << <<"rels", "CT_RELATIONSHIP">>, <<"xml", "CT_XML">> >>,
     overrides |-> << <<"/word/document.xml", "CT_DOCUMENT">> >>]

\* Styles::create_style pushes a default style and returns it
StyleDefault == "style_default"
StylesDefault == <<>>

----------------------------------------------------------------------------
(* The Docx aggregate (struct Docx) *)

DocxDefault ==
    [app |-> None, core |-> None, content_types |-> ContentTypesDefault,
     document |-> <<>>, font_table |-> None, styles |-> None,
     rels |-> RelationshipsDefault, document_rels |-> None]

\* Option::get_or_insert: the value held, or the given one
GetOrInsert(o, v) == IF IsSome(o) THEN Unwrap(o) ELSE v

\* insert_para: push the paragraph at the end of the body content
insert_para(d, para) == [d EXCEPT !.document = Append(@, para)]

\* insert_style putting a new container in place of the one held
insert_style_fresh(d, style) ==
    [d EXCEPT !.styles = Some(Append(StylesDefault, style))]

\* insert_style: get_or_insert(Styles::default()), then push the style
insert_style(d, style) ==
    [d EXCEPT !.styles = Some(Append(GetOrInsert(@, StylesDefault), style))]

\* create_style: get_or_insert(Styles::default()), then Styles::create_style
create_style(d) ==
    [d EXCEPT !.styles = Some(Append(GetOrInsert(@, StylesDefault), StyleDefault))]

----------------------------------------------------------------------------
(* Docx::write.  A write state is [zip, d, err]: the entries written so    *)
(* far, the aggregate, and "ok" or the error that ended the write.  The    *)
(* input fail = [at, kind] names the step whose zip.start_file or          *)
(* xml.write fails (at = 0: none; at = 9: zip.finish).                     *)

Entry(name, text) == [name |-> name, st |-> "ok", text |-> text]

Fails ==
    {[at |-> 0, kind |-> "none"]}
    \cup {[at |-> k, kind |-> kd] : k \in 1..8, kd \in {"start_file", "xml_write"}}
    \cup {[at |-> 9, kind |-> "finish"]}

\* write!($xml, $name): zip.start_file($name, opt)?; $xml.write(&mut zip)?
write_xml(st, text, name, fail, k) ==
    IF st.err # "ok" THEN st
    ELSE IF fail.at = k /\ fail.kind = "start_file"
         THEN [st EXCEPT !.err = "ZipError"]
    ELSE IF fail.at = k
         THEN [st EXCEPT !.err = "XmlError",
                         !.zip = Append(@, [name |-> name, st |-> "badread",
                                            text |-> Malformed])]
    ELSE [st EXCEPT !.zip = Append(@, Entry(name, text))]

\* write!(self.content_types, "[Content_Types].xml")
WriteContentTypes(st, fail) ==
    write_xml(st, XmlWriteContentTypes(st.d.content_types), P_CONTENT_TYPES, fail, 1)

\* option_write!(self.app, "docProps/app.xml", self.rels, SCHEMA_REL_EXTENDED, ..)
WriteApp(st, fail) ==
    IF st.err = "ok" /\ IsSome(st.d.app)
    THEN LET s1 == write_xml(st, XmlWriteApp(Unwrap(st.d.app)), P_APP, fail, 2)
         IN  IF s1.err = "ok"
             THEN [s1 EXCEPT !.d.rels = add_rel(@, SCHEMA_REL_EXTENDED, "docProps/app.xml")]
             ELSE s1
    ELSE st

\* the core step registering the app relationship a second time
WriteCoreAsApp(st, fail) ==
    IF st.err = "ok" /\ IsSome(st.d.core)
    THEN LET s1 == write_xml(st, XmlWriteCore(Unwrap(st.d.core)), P_CORE, fail, 3)
         IN  IF s1.err = "ok"
             THEN [s1 EXCEPT !.d.rels = add_rel(@, SCHEMA_REL_EXTENDED, "docProps/app.xml")]
             ELSE s1
    ELSE st

\* option_write!(self.core, "docProps/core.xml", self.rels, SCHEMA_CORE, ..)
WriteCore(st, fail) ==
    IF st.err = "ok" /\ IsSome(st.d.core)
    THEN LET s1 == write_xml(st, XmlWriteCore(Unwrap(st.d.core)), P_CORE, fail, 3)
         IN  IF s1.err = "ok"
             THEN [s1 EXCEPT !.d.rels = add_rel(@, SCHEMA_CORE, "docProps/core.xml")]
             ELSE s1
    ELSE st

\* the document step without its add_rel
WriteDocumentNoRel(st, fail) ==
    IF st.err = "ok"
    THEN write_xml(st, XmlWriteDocument(st.d.document), P_DOCUMENT, fail, 4)
    ELSE st

\* the document step appending its relationship before the part is written
WriteDocumentRelFirst(st, fail) ==
    IF st.err = "ok"
    THEN LET s0 == [st EXCEPT !.d.rels =
                                 add_rel(@, SCHEMA_OFFICE_DOCUMENT, "word/document.xml")]
         IN  write_xml(s0, XmlWriteDocument(s0.d.document), P_DOCUMENT, fail, 4)
    ELSE st

\* the document step putting its relationship in front of the entries held
WriteDocumentPrepend(st, fail) ==
    IF st.err = "ok"
    THEN LET s1 == write_xml(st, XmlWriteDocument(st.d.document), P_DOCUMENT, fail, 4)
             added == add_rel(s1.d.rels, SCHEMA_OFFICE_DOCUMENT, "word/document.xml")
         IN  IF s1.err = "ok"
             THEN [s1 EXCEPT !.d.rels = <<added[Len(added)]>> \o s1.d.rels]
             ELSE s1
    ELSE st

\* the document step appending its relationship only when the graph has none
\* for that target
WriteDocumentOnce(st, fail) ==
    IF st.err = "ok"
    THEN LET s1 == write_xml(st, XmlWriteDocument(st.d.document), P_DOCUMENT, fail, 4)
         IN  IF s1.err = "ok"
                /\ \A i \in 1..Len(s1.d.rels) : s1.d.rels[i].target # "word/document.xml"
             THEN [s1 EXCEPT !.d.rels =
                                add_rel(@, SCHEMA_OFFICE_DOCUMENT, "word/document.xml")]
             ELSE s1
    ELSE st

\* write!(self.document, "word/document.xml", self.rels, SCHEMA_OFFICE_DOCUMENT, ..)
WriteDocument(st, fail) ==
    IF st.err = "ok"
    THEN LET s1 == write_xml(st, XmlWriteDocument(st.d.document), P_DOCUMENT, fail, 4)
         IN  IF s1.err = "ok"
             THEN [s1 EXCEPT !.d.rels =
                                add_rel(@, SCHEMA_OFFICE_DOCUMENT, "word/document.xml")]
             ELSE s1
    ELSE st

\* the styles step with the relationship added to the package-level graph
WriteStylesPackageLevel(st, fail) ==
    IF st.err = "ok" /\ IsSome(st.d.styles)
    THEN LET s1 == write_xml(st, XmlWriteStyles(Unwrap(st.d.styles)), P_STYLES, fail, 5)
         IN  IF s1.err = "ok"
             THEN [s1 EXCEPT !.d.rels = add_rel(@, SCHEMA_STYLES, "styles.xml")]
             ELSE s1
    ELSE st

\* the styles step taking its id from one sequence for both graphs
WriteStylesSharedIds(st, fail) ==
    IF st.err = "ok" /\ IsSome(st.d.styles)
    THEN LET s1 == write_xml(st, XmlWriteStyles(Unwrap(st.d.styles)), P_STYLES, fail, 5)
             held == GetOrInsert(s1.d.document_rels, RelationshipsDefault)
             ids == RelIds(s1.d.rels) \cup RelIds(held)
         IN  IF s1.err = "ok"
             THEN [s1 EXCEPT !.d.document_rels =
                        Some(Append(held, [id |-> MaxOf(ids \cup {0}) + 1,
                                           target |-> "styles.xml",
                                           ty |-> SCHEMA_STYLES]))]
             ELSE s1
    ELSE st

\* option_write!(self.styles, "word/styles.xml",
\*     self.document_rels.get_or_insert(Relationships::default()), SCHEMA_STYLES, ..)
WriteStyles(st, fail) ==
    IF st.err = "ok" /\ IsSome(st.d.styles)
    THEN LET s1 == write_xml(st, XmlWriteStyles(Unwrap(st.d.styles)), P_STYLES, fail, 5)
         IN  IF s1.err = "ok"
             THEN [s1 EXCEPT !.d.document_rels =
                        Some(add_rel(GetOrInsert(@, RelationshipsDefault),
                                     SCHEMA_STYLES, "styles.xml"))]
             ELSE s1
    ELSE st

\* the font-table step starting a new part-level graph of its own
WriteFontTableFreshGraph(st, fail) ==
    IF st.err = "ok" /\ IsSome(st.d.font_table)
    THEN LET s1 == write_xml(st, XmlWriteFontTable(Unwrap(st.d.font_table)),
                             P_FONT_TABLE, fail, 6)
         IN  IF s1.err = "ok"
             THEN [s1 EXCEPT !.d.document_rels =
                        Some(add_rel(RelationshipsDefault,
                                     SCHEMA_FONT_TABLE, "fontTable.xml"))]
             ELSE s1
    ELSE st

\* option_write!(self.font_table, "word/fontTable.xml",
\*     self.document_rels.get_or_insert(Relationships::default()), SCHEMA_FONT_TABLE, ..)
WriteFontTable(st, fail) ==
    IF st.err = "ok" /\ IsSome(st.d.font_table)
    THEN LET s1 == write_xml(st, XmlWriteFontTable(Unwrap(st.d.font_table)),
                             P_FONT_TABLE, fail, 6)
         IN  IF s1.err = "ok"
             THEN [s1 EXCEPT !.d.document_rels =
                        Some(add_rel(GetOrInsert(@, RelationshipsDefault),
                                     SCHEMA_FONT_TABLE, "fontTable.xml"))]
             ELSE s1
    ELSE st

\* write!(self.rels, "_rels/.rels")
WriteRels(st, fail) ==
    IF st.err = "ok"
    THEN write_xml(st, XmlWriteRels(st.d.rels), P_RELS, fail, 7)
    ELSE st

\* the last step as write!: the part-level graph is written even when absent
WriteDocumentRelsAlways(st, fail) ==
    IF st.err = "ok"
    THEN write_xml(st, XmlWriteRels(GetOrInsert(st.d.document_rels, RelationshipsDefault)),
                   P_DOCUMENT_RELS, fail, 8)
    ELSE st

\* the last step guarded by the dependents instead of by the graph
WriteDocumentRelsIfDependents(st, fail) ==
    IF st.err = "ok" /\ (IsSome(st.d.styles) \/ IsSome(st.d.font_table))
    THEN write_xml(st, XmlWriteRels(GetOrInsert(st.d.document_rels, RelationshipsDefault)),
                   P_DOCUMENT_RELS, fail, 8)
    ELSE st

\* option_write!(self.document_rels, "word/_rels/document.xml.rels")
WriteDocumentRels(st, fail) ==
    IF st.err = "ok" /\ IsSome(st.d.document_rels)
    THEN write_xml(st, XmlWriteRels(Unwrap(st.d.document_rels)), P_DOCUMENT_RELS, fail, 8)
    ELSE st

\* Ok(zip.finish()?)
Finish(st, fail) ==
    IF st.err = "ok" /\ fail.at = 9 THEN [st EXCEPT !.err = "ZipError"] ELSE st

\* write with the package-level graph serialized before the parts
DocxWriteRelsFirst(d, fail) ==
    LET s0 == [zip |-> <<>>, d |-> d, err |-> "ok"]
        s1 == WriteContentTypes(s0, fail)
        s2 == WriteRels(s1, fail)
        s3 == WriteApp(s2, fail)
        s4 == WriteCore(s3, fail)
        s5 == WriteDocument(s4, fail)
        s6 == WriteStyles(s5, fail)
        s7 == WriteFontTable(s6, fail)
        s8 == WriteDocumentRels(s7, fail)
    IN  Finish(s8, fail)

DocxWrite(d, fail) ==
    LET s0 == [zip |-> <<>>, d |-> d, err |-> "ok"]
        s1 == WriteContentTypes(s0, fail)
        s2 == WriteApp(s1, fail)
        s3 == WriteCore(s2, fail)
        s4 == WriteDocument(s3, fail)
        s5 == WriteStyles(s4, fail)
        s6 == WriteFontTable(s5, fail)
        s7 == WriteRels(s6, fail)
        s8 == WriteDocumentRels(s7, fail)
    IN  Finish(s8, fail)

----------------------------------------------------------------------------
(* DocxFile::from_reader.  An archive is [valid, entries]; an entry's st   *)
(* is "ok", "badentry" (zip.by_name fails with an error other than         *)
(* FileNotFound) or "badread" (read_to_string fails).                      *)

\* zip.by_name($name)
by_name(a, name) ==
    LET idx == {i \in 1..Len(a.entries) : a.entries[i].name = name}
    IN  IF idx = {} THEN [err |-> "FileNotFound", entry |-> Entry(name, Malformed)]
        ELSE LET e == a.entries[CHOOSE i \in idx : TRUE]
             IN  IF e.st = "badentry" THEN [err |-> "ZipError", entry |-> e]
                 ELSE [err |-> "ok", entry |-> e]

\* file.read_to_string(&mut buffer)
read_to_string(e) ==
    IF e.st = "badread" THEN [err |-> "IoError", text |-> Malformed]
    ELSE [err |-> "ok", text |-> e.text]

\* read! with a missing entry read as an empty buffer
read_or_empty(a, name) ==
    LET r == by_name(a, name)
    IN  IF r.err = "FileNotFound" THEN [err |-> "ok", val |-> Malformed]
        ELSE IF r.err # "ok" THEN [err |-> r.err, val |-> Malformed]
        ELSE LET b == read_to_string(r.entry)
             IN  [err |-> b.err, val |-> b.text]

\* read!: by_name(..)? then read_to_string(..)?; every failure is returned
read(a, name) ==
    LET r == by_name(a, name)
    IN  IF r.err # "ok" THEN [err |-> r.err, val |-> Malformed]
        ELSE LET b == read_to_string(r.entry)
             IN  [err |-> b.err, val |-> b.text]

\* option_read! with every failure taken for absence
option_read_lenient(a, name) ==
    LET r == by_name(a, name)
    IN  IF r.err # "ok" THEN [err |-> "ok", val |-> None]
        ELSE LET b == read_to_string(r.entry)
             IN  IF b.err # "ok" THEN [err |-> "ok", val |-> None]
                 ELSE [err |-> "ok", val |-> Some(b.text)]

\* option_read!: Err(FileNotFound) => None; Err(e) => return Err(e);
\* Ok(file) => Some(buffer) after read_to_string(..)?
option_read(a, name) ==
    LET r == by_name(a, name)
    IN  IF r.err = "FileNotFound" THEN [err |-> "ok", val |-> None]
        ELSE IF r.err # "ok" THEN [err |-> r.err, val |-> None]
        ELSE LET b == read_to_string(r.entry)
             IN  IF b.err # "ok" THEN [err |-> b.err, val |-> None]
                 ELSE [err |-> "ok", val |-> Some(b.text)]

\* the first error of a sequence of results, "ok" when there is none
FirstErr(errs) ==
    LET bad == {i \in 1..Len(errs) : errs[i] # "ok"}
    IN  IF bad = {} THEN "ok" ELSE errs[CHOOSE i \in bad : \A j \in bad : i <= j]

from_reader(a) ==
    IF ~a.valid THEN [err |-> "ZipError", file |-> None]
    ELSE
    LET app == option_read(a, P_APP)
        content_types == read(a, P_CONTENT_TYPES)
        core == option_read(a, P_CORE)
        document_rels == option_read(a, P_DOCUMENT_RELS)
        document == read(a, P_DOCUMENT)
        font_table == option_read(a, P_FONT_TABLE)
        rels == read(a, P_RELS)
        styles == option_read(a, P_STYLES)
        e == FirstErr(<<app.err, content_types.err, core.err, document_rels.err,
                        document.err, font_table.err, rels.err, styles.err>>)
    IN  IF e # "ok" THEN [err |-> e, file |-> None]
        ELSE [err |-> "ok",
              file |-> Some([app |-> app.val, content_types |-> content_types.val,
                             core |-> core.val, document_rels |-> document_rels.val,
                             document |-> document.val, font_table |-> font_table.val,
                             rels |-> rels.val, styles |-> styles.val])]

----------------------------------------------------------------------------
(* DocxFile::parse *)

\* the text a buffer holds; an absent buffer is never parsed
TextOf(o) == IF IsSome(o) THEN Unwrap(o) ELSE Malformed

\* an optional part whose parser fails taken as absent
OptParseLenient(o, r) ==
    IF IsNone(o) THEN [ok |-> TRUE, val |-> None]
    ELSE IF r.ok THEN [ok |-> TRUE, val |-> Some(Unwrap(r.val))]
    ELSE [ok |-> TRUE, val |-> None]

\* if let Some(content) = &self.x { Some(X::from_str(content)?) } else { None },
\* with r the result of X::from_str on the content
OptParse(o, r) ==
    IF IsNone(o) THEN [ok |-> TRUE, val |-> None]
    ELSE IF r.ok THEN [ok |-> TRUE, val |-> Some(Unwrap(r.val))]
    ELSE [ok |-> FALSE, val |-> None]

ErrOf(r, part) == IF r.ok THEN "ok" ELSE part

\* parse with the part-level graph left out of the aggregate
parse_without_document_rels(f) ==
    LET app == OptParse(f.app, AppFromStr(TextOf(f.app)))
        document == DocumentFromStr(f.document)
        content_types == ContentTypesFromStr(f.content_types)
        core == OptParse(f.core, CoreFromStr(TextOf(f.core)))
        font_table == OptParse(f.font_table, FontTableFromStr(TextOf(f.font_table)))
        rels == RelsFromStr(f.rels)
        styles == OptParse(f.styles, StylesFromStr(TextOf(f.styles)))
        e == FirstErr(<<ErrOf(app, "app"), ErrOf(document, "document"),
                        ErrOf(content_types, "content_types"), ErrOf(core, "core"),
                        ErrOf(font_table, "font_table"), ErrOf(rels, "rels"),
                        ErrOf(styles, "styles")>>)
    IN  IF e # "ok" THEN [err |-> e, docx |-> None]
        ELSE [err |-> "ok",
              docx |-> Some([app |-> app.val,
                             content_types |-> Unwrap(content_types.val),
                             core |-> core.val,
                             document |-> Unwrap(document.val),
                             document_rels |-> None,
                             font_table |-> font_table.val,
                             rels |-> Unwrap(rels.val),
                             styles |-> styles.val])]

parse(f) ==
    LET app == OptParse(f.app, AppFromStr(TextOf(f.app)))
        document == DocumentFromStr(f.document)
        content_types == ContentTypesFromStr(f.content_types)
        core == OptParse(f.core, CoreFromStr(TextOf(f.core)))
        document_rels == OptParse(f.document_rels, RelsFromStr(TextOf(f.document_rels)))
        font_table == OptParse(f.font_table, FontTableFromStr(TextOf(f.font_table)))
        rels == RelsFromStr(f.rels)
        styles == OptParse(f.styles, StylesFromStr(TextOf(f.styles)))
        e == FirstErr(<<ErrOf(app, "app"), ErrOf(document, "document"),
                        ErrOf(content_types, "content_types"), ErrOf(core, "core"),
                        ErrOf(document_rels, "document_rels"),
                        ErrOf(font_table, "font_table"), ErrOf(rels, "rels"),
                        ErrOf(styles, "styles")>>)
    IN  IF e # "ok" THEN [err |-> e, docx |-> None]
        ELSE [err |-> "ok",
              docx |-> Some([app |-> app.val,
                             content_types |-> Unwrap(content_types.val),
                             core |-> core.val,
                             document |-> Unwrap(document.val),
                             document_rels |-> document_rels.val,
                             font_table |-> font_table.val,
                             rels |-> Unwrap(rels.val),
                             styles |-> styles.val])]

----------------------------------------------------------------------------
(* Archives produced outside this library that from_reader may be given.   *)
(* Their relationship ids are sparse and out of order.                     *)

Rel(id, ty, target) == [id |-> id, target |-> target, ty |-> ty]

ExtContentTypesFull ==
    [defaults |-> << <<"rels", "CT_RELATIONSHIP">> >>,
     overrides |-> << <<"/word/document.xml", "CT_DOCUMENT">>,
                      <<"/docProps/app.xml", "CT_APP">>,
                      <<"/docProps/core.xml", "CT_CORE">>,
                      <<"/word/styles.xml", "CT_STYLES">>,
                      <<"/word/fontTable.xml", "CT_FONT_TABLE">> >>]

\* a registry that lists every part of its package by override
ExtContentTypesApp ==
    [defaults |-> << <<"rels", "CT_RELATIONSHIP">> >>,
     overrides |-> << <<"/word/document.xml", "CT_DOCUMENT">>,
                      <<"/docProps/app.xml", "CT_APP">> >>]

ExtContentTypesMinimal ==
    [defaults |-> << <<"rels", "CT_RELATIONSHIP">>, <<"xml", "CT_XML">> >>,
     overrides |-> << <<"/word/document.xml", "CT_DOCUMENT">> >>]

ExtFull ==
    [valid |-> TRUE,
     entries |-> <<
        Entry(P_CONTENT_TYPES, XmlWriteContentTypes(ExtContentTypesFull)),
        Entry(P_RELS, XmlWriteRels(<<Rel(5, SCHEMA_OFFICE_DOCUMENT, "word/document.xml"),
                                     Rel(2, SCHEMA_REL_EXTENDED, "docProps/app.xml"),
                                     Rel(9, SCHEMA_CORE, "docProps/core.xml")>>)),
        Entry(P_APP, XmlWriteApp("app_ext")),
        Entry(P_CORE, XmlWriteCore("core_ext")),
        Entry(P_DOCUMENT, XmlWriteDocument(<< <<"x", ">">> >>)),
        Entry(P_DOCUMENT_RELS, XmlWriteRels(<<Rel(7, SCHEMA_STYLES, "styles.xml"),
                                              Rel(3, SCHEMA_FONT_TABLE, "fontTable.xml")>>)),
        Entry(P_STYLES, XmlWriteStyles(<<"style_ext">>)),
        Entry(P_FONT_TABLE, XmlWriteFontTable("fonts_ext")) >>]

ExtMinimal ==
    [valid |-> TRUE,
     entries |-> <<
        Entry(P_CONTENT_TYPES, XmlWriteContentTypes(ExtContentTypesMinimal)),
        Entry(P_RELS, XmlWriteRels(<<Rel(4, SCHEMA_OFFICE_DOCUMENT, "word/document.xml")>>)),
        Entry(P_DOCUMENT, XmlWriteDocument(<<>>)) >>]

ExtApp ==
    [valid |-> TRUE,
     entries |-> <<
        Entry(P_CONTENT_TYPES, XmlWriteContentTypes(ExtContentTypesApp)),
        Entry(P_RELS, XmlWriteRels(<<Rel(1, SCHEMA_OFFICE_DOCUMENT, "word/document.xml"),
                                     Rel(3, SCHEMA_REL_EXTENDED, "docProps/app.xml")>>)),
        Entry(P_APP, XmlWriteApp("app_ext")),
        Entry(P_DOCUMENT, XmlWriteDocument(<<>>)) >>]

\* a package whose document part has dependents other than styles and fonts
ExtDocRels ==
    [valid |-> TRUE,
     entries |-> <<
        Entry(P_CONTENT_TYPES, XmlWriteContentTypes(ExtContentTypesMinimal)),
        Entry(P_RELS, XmlWriteRels(<<Rel(1, SCHEMA_OFFICE_DOCUMENT, "word/document.xml")>>)),
        Entry(P_DOCUMENT, XmlWriteDocument(<<>>)),
        Entry("word/settings.xml", [root |-> "w:settings", children |-> <<>>]),
        Entry(P_DOCUMENT_RELS, XmlWriteRels(<<Rel(6, "SCHEMA_SETTINGS", "settings.xml")>>)) >>]

NotAZip == [valid |-> FALSE, entries |-> <<>>]

\* archive a with the entry at path name removed ("absent"), unreadable
\* ("badentry", "badread") or holding text that is not its part's XML ("malformed")
Damage(a, name, how) ==
    IF how = "absent"
    THEN [a EXCEPT !.entries = SelectSeq(@, LAMBDA e : e.name # name)]
    ELSE [a EXCEPT !.entries =
            [i \in 1..Len(@) |->
                IF @[i].name # name THEN @[i]
                ELSE IF how = "malformed" THEN [@[i] EXCEPT !.text = Malformed]
                ELSE [@[i] EXCEPT !.st = how]]]

AllPaths == RequiredPaths \cup OptionalPaths

ExternalArchives ==
    {ExtFull, ExtMinimal, ExtApp, ExtDocRels, NotAZip}
    \cup {Damage(ExtFull, p, how) :
            p \in AllPaths, how \in {"absent", "badentry", "badread", "malformed"}}
    \cup {Damage(Damage(ExtFull, p, "absent"), q, how) :
            p \in RequiredPaths, q \in AllPaths, how \in {"badentry", "badread"}}

----------------------------------------------------------------------------
(* Inputs of the insertion operations *)

Paras == {<<"a", "\"", "&", "<">>}
StyleValues == {"style_1"}

StylesLen(d) == IF IsSome(d.styles) THEN Len(Unwrap(d.styles)) ELSE 0

----------------------------------------------------------------------------
(* The state machine *)

\* a caller that gets an error from write, from_reader or parse returns it:
\* it goes on only while no call has failed
Alive ==
    /\ wres \in {"none", "ok"}
    /\ rres \in {"none", "ok"}
    /\ pres \in {"none", "ok"}

NoStreak == [n |-> 0, base |-> DocxDefault]

Init ==
    /\ docx = DocxDefault
    /\ pre = DocxDefault
    /\ zip = <<>>
    /\ wres = "none"
    /\ src = NotAZip
    /\ file = None
    /\ rres = "none"
    /\ pres = "none"
    /\ lastOp = "default"
    /\ writes = 0
    /\ streak = NoStreak
    /\ prev = DocxDefault

InsertPara ==
    /\ Alive
    /\ Len(docx.document) < MaxParas
    /\ \E para \in Paras : docx' = insert_para(docx, para)
    /\ lastOp' = "insert_para"
    /\ streak' = NoStreak
    /\ prev' = docx
    /\ UNCHANGED <<pre, zip, wres, src, file, rres, pres, writes>>

InsertStyle ==
    /\ Alive
    /\ StylesLen(docx) < MaxStyles
    /\ \E style \in StyleValues : docx' = insert_style(docx, style)
    /\ lastOp' = "insert_style"
    /\ streak' = NoStreak
    /\ prev' = docx
    /\ UNCHANGED <<pre, zip, wres, src, file, rres, pres, writes>>

CreateStyle ==
    /\ Alive
    /\ StylesLen(docx) < MaxStyles
    /\ docx' = create_style(docx)
    /\ lastOp' = "create_style"
    /\ streak' = NoStreak
    /\ prev' = docx
    /\ UNCHANGED <<pre, zip, wres, src, file, rres, pres, writes>>

Write ==
    /\ Alive
    /\ writes < MaxWrites
    /\ writes' = writes + 1
    /\ \E fail \in Fails :
         LET r == DocxWrite(docx, fail)
         IN  /\ docx' = r.d
             /\ zip' = r.zip
             /\ wres' = r.err
             /\ streak' = IF r.err # "ok" THEN NoStreak
                          ELSE [n |-> streak.n + 1,
                                base |-> IF streak.n = 0 THEN docx ELSE streak.base]
    /\ pre' = docx
    /\ prev' = docx
    /\ lastOp' = "write"
    /\ UNCHANGED <<src, file, rres, pres>>

\* The archives a caller has at hand: before it has built anything, one
\* from outside; after a successful write, the archive that write produced.
Readable ==
    IF ~Alive THEN {}
    ELSE IF lastOp = "default" THEN ExternalArchives
    ELSE IF lastOp = "write" /\ wres = "ok" THEN {[valid |-> TRUE, entries |-> zip]}
    ELSE {}

FromReader ==
    /\ \E a \in Readable :
         LET r == from_reader(a)
         IN  /\ src' = a
             /\ file' = r.file
             /\ rres' = r.err
    /\ pres' = "none"
    /\ lastOp' = "from_reader"
    /\ prev' = docx
    /\ UNCHANGED <<docx, pre, zip, wres, writes, streak>>

\* parse on the extraction buffer; the caller keeps the aggregate it returns
Parse ==
    /\ Alive
    /\ IsSome(file)
    /\ LET r == parse(Unwrap(file))
       IN  /\ pres' = r.err
           /\ docx' = IF r.err = "ok" THEN Unwrap(r.docx) ELSE docx
    /\ lastOp' = "parse"
    /\ streak' = NoStreak
    /\ prev' = docx
    /\ UNCHANGED <<pre, zip, wres, src, file, rres, writes>>

Next ==
    \/ InsertPara
    \/ InsertStyle
    \/ CreateStyle
    \/ Write
    \/ FromReader
    \/ Parse

Spec == Init /\ [][Next]_vars

----------------------------------------------------------------------------
(* The insertion operations on aggregates that already hold content: the   *)
(* fields of Docx are public, so a caller may hold any combination of them. *)

\* the aggregate parse returns for a package that has every part
DocxFull == Unwrap(parse(Unwrap(from_reader(ExtFull).file)).docx)

HeldStyles ==
    {None, Some(StylesDefault), Some(<<"style_ext">>), Some(<<"style_ext", "style_1">>)}

HeldAggregates ==
    {[app |-> parts.app, core |-> parts.core, content_types |-> parts.content_types,
      font_table |-> parts.font_table, document |-> document, styles |-> styles,
      rels |-> rels, document_rels |-> document_rels] :
        parts \in {DocxDefault, DocxFull},
        document \in {DocxDefault.document, DocxFull.document},
        styles \in HeldStyles,
        rels \in {DocxDefault.rels, DocxFull.rels},
        document_rels \in {DocxDefault.document_rels, DocxFull.document_rels}}

InitInsert ==
    /\ docx \in HeldAggregates
    /\ prev = docx
    /\ pre = DocxDefault
    /\ zip = <<>>
    /\ wres = "none"
    /\ src = NotAZip
    /\ file = None
    /\ rres = "none"
    /\ pres = "none"
    /\ lastOp = "default"
    /\ writes = 0
    /\ streak = NoStreak

InsertParaHeld ==
    /\ Len(docx.document) < MaxHeld
    /\ \E para \in Paras : docx' = insert_para(docx, para)
    /\ lastOp' = "insert_para"
    /\ prev' = docx
    /\ UNCHANGED <<pre, zip, wres, src, file, rres, pres, writes, streak>>

InsertStyleHeld ==
    /\ StylesLen(docx) < MaxHeld
    /\ \E style \in StyleValues : docx' = insert_style(docx, style)
    /\ lastOp' = "insert_style"
    /\ prev' = docx
    /\ UNCHANGED <<pre, zip, wres, src, file, rres, pres, writes, streak>>

CreateStyleHeld ==
    /\ StylesLen(docx) < MaxHeld
    /\ docx' = create_style(docx)
    /\ lastOp' = "create_style"
    /\ prev' = docx
    /\ UNCHANGED <<pre, zip, wres, src, file, rres, pres, writes, streak>>

NextInsert ==
    \/ InsertParaHeld
    \/ InsertStyleHeld
    \/ CreateStyleHeld

SpecInsert == InitInsert /\ [][NextInsert]_vars

----------------------------------------------------------------------------
(* Vocabulary of the properties *)

NoFail == [at |-> 0, kind |-> "none"]

\* the last operation was a write and it returned Ok
WroteOk == lastOp = "write" /\ wres = "ok"

HasEntry(entries, name) == \E i \in 1..Len(entries) : entries[i].name = name
Names(entries) == [i \in 1..Len(entries) |-> entries[i].name]

OptRels(o) == GetOrInsert(o, RelationshipsDefault)

\* how many entries of a graph have this type and target
CountRel(rels, ty, target) ==
    Cardinality({i \in 1..Len(rels) : rels[i].ty = ty /\ rels[i].target = target})

\* the <<type, target>> pairs of a graph, in order
TypeTargets(rels) == [i \in 1..Len(rels) |-> <<rels[i].ty, rels[i].target>>]

\* the aggregate was parsed from the archive that the last write produced
RoundTripDone ==
    /\ lastOp = "parse"
    /\ pres = "ok"
    /\ wres = "ok"
    /\ src.valid
    /\ Names(src.entries) = Names(zip)
    /\ src.entries = zip

----------------------------------------------------------------------------
(* C1 *)

\* C1 as stated: after write, from_reader and parse, the aggregate equals the
\* aggregate A that write was called on: every optional part (document_rels
\* included) is present exactly when it was in A, and the document content,
\* both relationship graphs and the content-type entries equal those of A.
C1_RoundTripEqualsInput ==
    RoundTripDone =>
        /\ IsSome(docx.app) = IsSome(pre.app)
        /\ IsSome(docx.core) = IsSome(pre.core)
        /\ IsSome(docx.styles) = IsSome(pre.styles)
        /\ IsSome(docx.font_table) = IsSome(pre.font_table)
        /\ IsSome(docx.document_rels) = IsSome(pre.document_rels)
        /\ docx.document = pre.document
        /\ docx.content_types = pre.content_types
        /\ docx.rels = pre.rels
        /\ docx.document_rels = pre.document_rels

\* C1, amended: after write, from_reader and parse, the aggregate equals A as
\* the write left it: app, core, styles, font_table, document and
\* content_types equal those A had when write was called, and rels and
\* document_rels equal A's graphs after the write (what they held before
\* plus the entries the write appended).
C1_RoundTripEqualsWritten ==
    RoundTripDone =>
        /\ docx.app = pre.app
        /\ docx.core = pre.core
        /\ docx.styles = pre.styles
        /\ docx.font_table = pre.font_table
        /\ docx.document = pre.document
        /\ docx.content_types = pre.content_types
        /\ docx.rels = DocxWrite(pre, NoFail).d.rels
        /\ docx.document_rels = DocxWrite(pre, NoFail).d.document_rels

C1_Witness ==
    /\ RoundTripDone
    /\ IsSome(docx.styles)
    /\ IsNone(pre.document_rels)
    /\ IsSome(docx.document_rels)
    /\ Len(docx.document) = 1
    /\ "&" \in Range(docx.document[1])

----------------------------------------------------------------------------
(* C2 *)

\* C2 as stated: after a successful write on any aggregate whose styles part
\* is present, document_rels is present and holds exactly one entry of the
\* styles type targeting styles.xml, and rels holds none.
C2_ExactlyOneStylesRel ==
    (WroteOk /\ IsSome(pre.styles)) =>
        /\ IsSome(docx.document_rels)
        /\ CountRel(OptRels(docx.document_rels), SCHEMA_STYLES, "styles.xml") = 1
        /\ CountRel(docx.rels, SCHEMA_STYLES, "styles.xml") = 0

\* C2, amended: a successful write on an aggregate whose styles part is
\* present leaves document_rels present with exactly one more entry of the
\* styles type targeting styles.xml than it held before the write (exactly one
\* when it held none), and adds no such entry to rels.
C2_OneMoreStylesRel ==
    (WroteOk /\ IsSome(pre.styles)) =>
        /\ IsSome(docx.document_rels)
        /\ CountRel(OptRels(docx.document_rels), SCHEMA_STYLES, "styles.xml")
             = CountRel(OptRels(pre.document_rels), SCHEMA_STYLES, "styles.xml") + 1
        /\ CountRel(docx.rels, SCHEMA_STYLES, "styles.xml")
             = CountRel(pre.rels, SCHEMA_STYLES, "styles.xml")

C2_Witness ==
    /\ WroteOk
    /\ IsSome(pre.styles)
    /\ IsNone(pre.document_rels)
    /\ CountRel(OptRels(docx.document_rels), SCHEMA_STYLES, "styles.xml") = 1

----------------------------------------------------------------------------
(* C3 *)

\* C3 as stated: the archive of a successful write holds the entry
\* word/_rels/document.xml.rels iff styles or font_table is present, whatever
\* document_rels was before.
C3_EntryIffDependents ==
    WroteOk =>
        (HasEntry(zip, P_DOCUMENT_RELS) <=> (IsSome(pre.styles) \/ IsSome(pre.font_table)))

\* C3, amended: the archive of a successful write holds the entry
\* word/_rels/document.xml.rels iff styles or font_table is present or
\* document_rels was already present when write was called.
C3_EntryIffGraphPresent ==
    WroteOk =>
        (HasEntry(zip, P_DOCUMENT_RELS)
            <=> (IsSome(pre.styles) \/ IsSome(pre.font_table) \/ IsSome(pre.document_rels)))

C3_Witness ==
    /\ WroteOk
    /\ IsNone(pre.styles)
    /\ IsNone(pre.font_table)
    /\ IsSome(pre.document_rels)
    /\ HasEntry(zip, P_DOCUMENT_RELS)

----------------------------------------------------------------------------
(* C4 *)

\* every present optional part has its relationship in the right graph, and
\* the document part has its relationship in rels
RelsCoverParts(d) ==
    /\ CountRel(d.rels, SCHEMA_OFFICE_DOCUMENT, "word/document.xml") >= 1
    /\ IsSome(d.app) => CountRel(d.rels, SCHEMA_REL_EXTENDED, "docProps/app.xml") >= 1
    /\ IsSome(d.core) => CountRel(d.rels, SCHEMA_CORE, "docProps/core.xml") >= 1
    /\ IsSome(d.styles) =>
          CountRel(OptRels(d.document_rels), SCHEMA_STYLES, "styles.xml") >= 1
    /\ IsSome(d.font_table) =>
          CountRel(OptRels(d.document_rels), SCHEMA_FONT_TABLE, "fontTable.xml") >= 1

\* C4 as stated: in every state reachable from the empty aggregate by
\* insert_para, insert_style, create_style and write, every present part has
\* its relationship entry in the right scope and the document has one in rels.
C4_AlwaysCovered ==
    (rres = "none") => RelsCoverParts(docx)

\* C4, amended: the relationship entries are there when a write has returned
\* Ok: right after a successful write every present optional part has its
\* entry in the right scope and the document part has one in rels.  (Before
\* the first write, and after insert_style or create_style has materialized
\* styles, the entries are missing until the next write.)
C4_CoveredAfterWrite ==
    WroteOk => RelsCoverParts(docx)

C4_Witness ==
    /\ WroteOk
    /\ pre.rels = <<>>
    /\ IsNone(pre.document_rels)
    /\ IsSome(docx.styles)
    /\ RelsCoverParts(docx)

----------------------------------------------------------------------------
(* C5 *)

\* C5: writing the empty aggregate (Docx::default()) produces an archive of
\* exactly the three entries [Content_Types].xml, _rels/.rels and
\* word/document.xml, without word/_rels/document.xml.rels, and document_rels
\* is still absent after the write.
C5_EmptyAggregateArchive ==
    (WroteOk /\ pre = DocxDefault) =>
        /\ Len(zip) = 3
        /\ Range(Names(zip)) = {P_CONTENT_TYPES, P_RELS, P_DOCUMENT}
        /\ ~HasEntry(zip, P_DOCUMENT_RELS)
        /\ IsNone(docx.document_rels)

C5_Witness ==
    /\ WroteOk
    /\ pre = DocxDefault
    /\ Len(zip) = 3

----------------------------------------------------------------------------
(* C6 *)

IdsDistinct(rels) == Cardinality(RelIds(rels)) = Len(rels)

\* the ids of the entries of now that were appended to before
NewIds(before, now) == {now[i].id : i \in (Len(before) + 1)..Len(now)}

\* C6: ids are unique within each graph and never reused: in every aggregate
\* (built from the empty one, or parsed from a graph with sparse ids and then
\* written) the ids of rels are pairwise distinct and so are those of
\* document_rels, and every id a write allocated differs from every id the
\* graph held before that write.
C6_IdsUnique ==
    /\ IdsDistinct(docx.rels)
    /\ IdsDistinct(OptRels(docx.document_rels))
    /\ lastOp = "write" =>
          /\ NewIds(pre.rels, docx.rels) \cap RelIds(pre.rels) = {}
          /\ NewIds(OptRels(pre.document_rels), OptRels(docx.document_rels))
                \cap RelIds(OptRels(pre.document_rels)) = {}

\* a write on a parsed aggregate whose graphs hold sparse ids, out of order
C6_Witness ==
    /\ WroteOk
    /\ RelIds(pre.rels) = {2, 5, 9}
    /\ Len(docx.rels) = 6
    /\ RelIds(OptRels(pre.document_rels)) = {3, 7}
    /\ Len(OptRels(docx.document_rels)) = 4

----------------------------------------------------------------------------
(* C7 *)

\* the extension and the part name of an archive path
Extension(path) == IF path = P_RELS \/ path = P_DOCUMENT_RELS THEN "rels" ELSE "xml"

PartName(path) ==
    CASE path = P_APP -> "/docProps/app.xml"
      [] path = P_CORE -> "/docProps/core.xml"
      [] path = P_DOCUMENT -> "/word/document.xml"
      [] path = P_STYLES -> "/word/styles.xml"
      [] path = P_FONT_TABLE -> "/word/fontTable.xml"
      [] path = P_RELS -> "/_rels/.rels"
      [] path = P_DOCUMENT_RELS -> "/word/_rels/document.xml.rels"
      [] OTHER -> "/[Content_Types].xml"

\* the registry resolves the path: by an extension default or by an override
Resolves(ct, path) ==
    \/ \E i \in 1..Len(ct.defaults) : ct.defaults[i][1] = Extension(path)
    \/ \E i \in 1..Len(ct.overrides) : ct.overrides[i][1] = PartName(path)

\* C7: after a successful write on an aggregate with app and styles present,
\* the registry of the aggregate resolves every part path that was written
\* (the registry's own entry [Content_Types].xml is no part and is left out).
C7_ContentTypeCoverage ==
    (WroteOk /\ IsSome(pre.app) /\ IsSome(pre.styles)) =>
        \A i \in 1..Len(zip) :
            zip[i].name # P_CONTENT_TYPES => Resolves(docx.content_types, zip[i].name)

----------------------------------------------------------------------------
(* C8 *)

\* the order in which from_reader reads the paths
ReadOrder ==
    <<P_APP, P_CONTENT_TYPES, P_CORE, P_DOCUMENT_RELS, P_DOCUMENT, P_FONT_TABLE,
      P_RELS, P_STYLES>>

EntryAt(a, name) == a.entries[CHOOSE i \in 1..Len(a.entries) : a.entries[i].name = name]

Missing(a, name) == ~HasEntry(a.entries, name)
Unreadable(a, name) == HasEntry(a.entries, name) /\ EntryAt(a, name).st # "ok"

\* from_reader was called on a zip archive
Extracted == rres # "none" /\ src.valid

\* C8 as stated: from_reader fails with the not-found error, and returns no
\* buffer, whenever one of the three required entries is missing, whatever
\* optional entries the archive holds.
C8_MissingRequiredIsNotFound ==
    (Extracted /\ \E p \in RequiredPaths : Missing(src, p)) =>
        /\ rres = "FileNotFound"
        /\ IsNone(file)

\* C8, amended: from_reader fails and returns no buffer whenever one of the
\* three required entries is missing; the error is the not-found error exactly
\* when no entry that from_reader reads before the first missing required one
\* is unreadable (an unreadable entry read earlier is reported instead).
C8_MissingRequiredFails ==
    (Extracted /\ \E p \in RequiredPaths : Missing(src, p)) =>
        LET miss == {i \in 1..Len(ReadOrder) :
                        ReadOrder[i] \in RequiredPaths /\ Missing(src, ReadOrder[i])}
            bad == {i \in 1..Len(ReadOrder) : Unreadable(src, ReadOrder[i])}
        IN  /\ rres # "ok"
            /\ IsNone(file)
            /\ (rres = "FileNotFound") <=> (\A j \in bad : \E i \in miss : i < j)

C8_Witness ==
    /\ Extracted
    /\ Missing(src, P_DOCUMENT)
    /\ HasEntry(src.entries, P_STYLES)
    /\ HasEntry(src.entries, P_APP)
    /\ rres = "FileNotFound"
    /\ IsNone(file)

----------------------------------------------------------------------------
(* C9 *)

\* the buffer of the extraction that belongs to an optional path
Buffer(f, path) ==
    CASE path = P_APP -> f.app
      [] path = P_CORE -> f.core
      [] path = P_FONT_TABLE -> f.font_table
      [] path = P_STYLES -> f.styles
      [] OTHER -> f.document_rels

\* C9: for each of the five optional paths, from_reader takes a not-found for
\* an absent buffer and goes on, and fails on any other failure of that path:
\* a successful extraction has None for exactly the optional entries that are
\* missing, an unreadable optional entry makes the extraction fail, and missing
\* optional entries alone never make it fail.
C9_OptionalReads ==
    Extracted =>
        /\ rres = "ok" =>
              /\ IsSome(file)
              /\ \A p \in OptionalPaths : IsNone(Buffer(Unwrap(file), p)) <=> Missing(src, p)
        /\ (\E p \in OptionalPaths : Unreadable(src, p)) => (rres # "ok" /\ IsNone(file))
        /\ (\A p \in AllPaths : ~Unreadable(src, p)) /\ (\A p \in RequiredPaths : ~Missing(src, p))
              => rres = "ok"

C9_Witness ==
    /\ Extracted
    /\ rres = "ok"
    /\ Missing(src, P_STYLES)
    /\ IsNone(Unwrap(file).styles)
    /\ IsSome(Unwrap(file).font_table)

----------------------------------------------------------------------------
(* C10 *)

OneIf(present, ty, target) == IF present THEN << <<ty, target>> >> ELSE <<>>

\* C10: one successful write appends, after what each graph held, exactly one
\* relationship per written part and none for an absent part: to rels, in
\* this order, app (if present), core (if present) and the document; to
\* document_rels, in this order, styles (if present) and font_table (if
\* present).
C10_OneRelPerWrittenPart ==
    WroteOk =>
        /\ SubSeq(docx.rels, 1, Len(pre.rels)) = pre.rels
        /\ TypeTargets(docx.rels) =
              TypeTargets(pre.rels)
              \o OneIf(IsSome(pre.app), SCHEMA_REL_EXTENDED, "docProps/app.xml")
              \o OneIf(IsSome(pre.core), SCHEMA_CORE, "docProps/core.xml")
              \o << <<SCHEMA_OFFICE_DOCUMENT, "word/document.xml">> >>
        /\ TypeTargets(OptRels(docx.document_rels)) =
              TypeTargets(OptRels(pre.document_rels))
              \o OneIf(IsSome(pre.styles), SCHEMA_STYLES, "styles.xml")
              \o OneIf(IsSome(pre.font_table), SCHEMA_FONT_TABLE, "fontTable.xml")

C10_Witness ==
    /\ WroteOk
    /\ IsSome(pre.app)
    /\ IsSome(pre.core)
    /\ IsSome(pre.styles)
    /\ IsSome(pre.font_table)
    /\ Len(docx.rels) = Len(pre.rels) + 3
    /\ Len(OptRels(docx.document_rels)) = Len(OptRels(pre.document_rels)) + 2

----------------------------------------------------------------------------
(* C11 *)

\* the order in which write emits the entries
WriteOrder ==
    <<P_CONTENT_TYPES, P_APP, P_CORE, P_DOCUMENT, P_STYLES, P_FONT_TABLE, P_RELS,
      P_DOCUMENT_RELS>>

\* the part of this path is present in aggregate d
PartPresent(d, path) ==
    CASE path = P_APP -> IsSome(d.app)
      [] path = P_CORE -> IsSome(d.core)
      [] path = P_STYLES -> IsSome(d.styles)
      [] path = P_FONT_TABLE -> IsSome(d.font_table)
      [] path = P_DOCUMENT_RELS -> IsSome(d.document_rels)
      [] OTHER -> TRUE

\* C11: a successful write emits the entries in the fixed order
\* [Content_Types].xml, docProps/app.xml, docProps/core.xml, word/document.xml,
\* word/styles.xml, word/fontTable.xml, _rels/.rels,
\* word/_rels/document.xml.rels, skipping absent parts, and each graph is
\* serialized after every relationship this write appends to it: the written
\* _rels/.rels is the final rels and the written part-level file is the final
\* document_rels.
C11_EntryOrder ==
    WroteOk =>
        /\ Names(zip) = SelectSeq(WriteOrder, LAMBDA path : PartPresent(docx, path))
        /\ EntryAt([entries |-> zip], P_RELS).text = XmlWriteRels(docx.rels)
        /\ Len(docx.rels) > Len(pre.rels)
        /\ IsSome(docx.document_rels) =>
              EntryAt([entries |-> zip], P_DOCUMENT_RELS).text
                 = XmlWriteRels(Unwrap(docx.document_rels))

C11_Witness ==
    /\ WroteOk
    /\ Len(zip) = 8
    /\ Len(Unwrap(docx.document_rels)) = Len(OptRels(pre.document_rels)) + 2
    /\ Len(EntryAt([entries |-> zip], P_RELS).text.children) = Len(pre.rels) + 3

----------------------------------------------------------------------------
(* C12 *)

\* how many relationships one write appends for an optional part
PerWrite(part) == IF IsSome(part) THEN 1 ELSE 0

\* the entries of graph now that graph before did not have, for one type and
\* target
Added(now, before, ty, target) == CountRel(now, ty, target) - CountRel(before, ty, target)

\* C12: k successful writes in a row on one aggregate, with no other change
\* to it, append k office-document entries targeting word/document.xml to the
\* package-level graph, k entries for each present app and core part (none
\* for an absent one), and k entries for each present styles and font_table
\* part to the part-level graph; no entry is removed or merged: each graph is
\* longer by exactly the entries counted, and a graph that started empty
\* holds exactly k of each.
C12_DuplicatesPerWrite ==
    streak.n >= 1 =>
        LET k == streak.n
            b == streak.base
            drels == OptRels(docx.document_rels)
            brels == OptRels(b.document_rels)
        IN  /\ Added(docx.rels, b.rels, SCHEMA_OFFICE_DOCUMENT, "word/document.xml") = k
            /\ Added(docx.rels, b.rels, SCHEMA_REL_EXTENDED, "docProps/app.xml")
                 = k * PerWrite(b.app)
            /\ Added(docx.rels, b.rels, SCHEMA_CORE, "docProps/core.xml")
                 = k * PerWrite(b.core)
            /\ Added(drels, brels, SCHEMA_STYLES, "styles.xml") = k * PerWrite(b.styles)
            /\ Added(drels, brels, SCHEMA_FONT_TABLE, "fontTable.xml")
                 = k * PerWrite(b.font_table)
            /\ Len(docx.rels)
                 = Len(b.rels) + k * (1 + PerWrite(b.app) + PerWrite(b.core))
            /\ Len(drels)
                 = Len(brels) + k * (PerWrite(b.styles) + PerWrite(b.font_table))
            /\ b.rels = <<>> =>
                  CountRel(docx.rels, SCHEMA_OFFICE_DOCUMENT, "word/document.xml") = k

C12_Witness ==
    /\ streak.n = 2
    /\ IsSome(streak.base.app)
    /\ IsSome(streak.base.styles)
    /\ Added(docx.rels, streak.base.rels, SCHEMA_REL_EXTENDED, "docProps/app.xml") = 2
    /\ Added(OptRels(docx.document_rels), OptRels(streak.base.document_rels),
             SCHEMA_STYLES, "styles.xml") = 2

----------------------------------------------------------------------------
(* C13 *)

\* the last operation was a write and it returned an error
WriteFailed == lastOp = "write" /\ wres \notin {"none", "ok"}

IsPrefix(s, t) == Len(s) <= Len(t) /\ SubSeq(t, 1, Len(s)) = s

\* the last write wrote the entry of this name completely
Done(name) == \E i \in 1..Len(zip) : zip[i].name = name /\ zip[i].st = "ok"

\* C13: when a step of write fails, write returns that error and runs no
\* later step: the destination holds the entries of the earlier steps, in
\* order, followed at most by the entry that failed while it was serialized
\* (none when the entry could not be started). Nothing is rolled back and no
\* relationship is appended for the failing part: each graph is what it was
\* before the write followed by one relationship for each part written
\* completely, and by nothing else.
C13_FailingStep ==
    WriteFailed =>
        /\ IsPrefix(Names(zip), SelectSeq(WriteOrder, LAMBDA path : PartPresent(docx, path)))
        /\ \A i \in 1..Len(zip) : zip[i].st # "ok" => i = Len(zip) /\ wres = "XmlError"
        /\ wres = "XmlError" => Len(zip) > 0 /\ zip[Len(zip)].st # "ok"
        /\ IsPrefix(pre.rels, docx.rels)
        /\ TypeTargets(docx.rels) =
              TypeTargets(pre.rels)
              \o OneIf(Done(P_APP), SCHEMA_REL_EXTENDED, "docProps/app.xml")
              \o OneIf(Done(P_CORE), SCHEMA_CORE, "docProps/core.xml")
              \o OneIf(Done(P_DOCUMENT), SCHEMA_OFFICE_DOCUMENT, "word/document.xml")
        /\ IsPrefix(OptRels(pre.document_rels), OptRels(docx.document_rels))
        /\ TypeTargets(OptRels(docx.document_rels)) =
              TypeTargets(OptRels(pre.document_rels))
              \o OneIf(Done(P_STYLES), SCHEMA_STYLES, "styles.xml")
              \o OneIf(Done(P_FONT_TABLE), SCHEMA_FONT_TABLE, "fontTable.xml")

\* the font table fails while it is serialized: the relationships of the
\* document and of the styles stay, none is added for the font table
C13_Witness ==
    /\ WriteFailed
    /\ wres = "XmlError"
    /\ zip[Len(zip)].name = P_FONT_TABLE
    /\ Len(docx.rels) > Len(pre.rels)
    /\ Len(OptRels(docx.document_rels)) = Len(OptRels(pre.document_rels)) + 1
    /\ ~HasEntry(zip, P_RELS)

----------------------------------------------------------------------------
(* C14 *)

\* the last operation was a parse and it returned an aggregate
ParsedOk == lastOp = "parse" /\ pres = "ok"

\* C14: on success parse maps presence exactly: each of app, core,
\* document_rels, font_table and styles is Some in the aggregate iff the
\* extraction buffer holds Some for it. parse leaves the buffer as
\* from_reader filled it, and parsing that buffer again gives the same result.
C14_PresenceMapped ==
    ParsedOk =>
        LET f == Unwrap(file)
        IN  /\ IsSome(file)
            /\ IsSome(docx.app) <=> IsSome(f.app)
            /\ IsSome(docx.core) <=> IsSome(f.core)
            /\ IsSome(docx.document_rels) <=> IsSome(f.document_rels)
            /\ IsSome(docx.font_table) <=> IsSome(f.font_table)
            /\ IsSome(docx.styles) <=> IsSome(f.styles)
            /\ file = from_reader(src).file
            /\ parse(f) = [err |-> "ok", docx |-> Some(docx)]

C14_Witness ==
    /\ ParsedOk
    /\ IsNone(Unwrap(file).styles) /\ IsNone(docx.styles)
    /\ IsSome(Unwrap(file).font_table) /\ IsSome(docx.font_table)
    /\ IsSome(Unwrap(file).document_rels) /\ IsSome(docx.document_rels)
    /\ IsSome(Unwrap(file).app) /\ IsSome(docx.app)

----------------------------------------------------------------------------
(* C15 *)

\* the parts present in buffer f whose parser fails on their text
FailingParts(f) ==
    {part \in {"app", "core", "document_rels", "font_table", "styles", "document",
               "content_types", "rels"} :
        CASE part = "app" -> IsSome(f.app) /\ ~AppFromStr(TextOf(f.app)).ok
          [] part = "core" -> IsSome(f.core) /\ ~CoreFromStr(TextOf(f.core)).ok
          [] part = "document_rels" ->
                IsSome(f.document_rels) /\ ~RelsFromStr(TextOf(f.document_rels)).ok
          [] part = "font_table" ->
                IsSome(f.font_table) /\ ~FontTableFromStr(TextOf(f.font_table)).ok
          [] part = "styles" -> IsSome(f.styles) /\ ~StylesFromStr(TextOf(f.styles)).ok
          [] part = "document" -> ~DocumentFromStr(f.document).ok
          [] part = "content_types" -> ~ContentTypesFromStr(f.content_types).ok
          [] OTHER -> ~RelsFromStr(f.rels).ok}

\* C15: parse is all-or-nothing: when the parser of a part present in the
\* buffer fails, required or optional, parse returns the error of a failing
\* part and no aggregate; it returns an aggregate, and no error, only when
\* the parser of every present part succeeded.
C15_AllOrNothing ==
    lastOp = "parse" =>
        LET f == Unwrap(file)
            r == parse(f)
        IN  /\ pres = r.err
            /\ (pres = "ok") <=> (FailingParts(f) = {})
            /\ (pres = "ok") <=> IsSome(r.docx)
            /\ pres # "ok" => pres \in FailingParts(f)
            /\ pres = "ok" => docx = Unwrap(r.docx)

C15_Witness ==
    /\ lastOp = "parse"
    /\ pres = "styles"
    /\ FailingParts(Unwrap(file)) = {"styles"}
    /\ IsSome(Unwrap(file).app)
    /\ IsNone(parse(Unwrap(file)).docx)

----------------------------------------------------------------------------
(* C16 *)

\* the last operation was one of the insertion operations
Inserted == lastOp \in {"insert_para", "insert_style", "create_style"}

\* C16: document_rels is absent until the first dependent part (styles or
\* font_table) is written and present from then on: an aggregate built from
\* the default has none before its first write; insert_para, insert_style
\* and create_style leave it as it is; a write never turns a present graph to
\* absent, creates none when neither styles nor font_table is present,
\* creates one only when it wrote styles or the font table, and creates it
\* once: when it wrote both, both entries are in the one graph, styles first.
C16_LazyDocumentRels ==
    /\ rres = "none" /\ writes = 0 => IsNone(docx.document_rels)
    /\ Inserted => docx.document_rels = prev.document_rels
    /\ lastOp = "write" =>
        /\ IsSome(prev.document_rels) => IsSome(docx.document_rels)
        /\ IsNone(prev.styles) /\ IsNone(prev.font_table) =>
              docx.document_rels = prev.document_rels
        /\ IsNone(prev.document_rels) /\ IsSome(docx.document_rels) =>
              Done(P_STYLES) \/ Done(P_FONT_TABLE)
        /\ Done(P_STYLES) \/ Done(P_FONT_TABLE) => IsSome(docx.document_rels)
        /\ IsNone(prev.document_rels) /\ Done(P_STYLES) /\ Done(P_FONT_TABLE) =>
              TypeTargets(Unwrap(docx.document_rels)) =
                 << <<SCHEMA_STYLES, "styles.xml">>, <<SCHEMA_FONT_TABLE, "fontTable.xml">> >>

C16_Witness ==
    /\ WroteOk
    /\ IsNone(prev.document_rels)
    /\ IsSome(prev.styles)
    /\ IsSome(prev.font_table)
    /\ Len(Unwrap(docx.document_rels)) = 2

----------------------------------------------------------------------------
(* C17 *)

\* sequence now is sequence before with exactly one element added at the end
OneAppended(now, before) == Len(now) = Len(before) + 1 /\ IsPrefix(before, now)

\* C17: after insert_style or create_style the styles part is present, holds
\* every style it held before in the same order, and exactly one more at the
\* end, which for insert_style is the given style; insert_para adds exactly
\* one paragraph at the end of the body content and keeps the earlier content
\* in order; none of the three changes rels, document_rels, content_types,
\* app, core or font_table.
C17_InsertOperations ==
    Inserted =>
        /\ lastOp \in {"insert_style", "create_style"} =>
              /\ IsSome(docx.styles)
              /\ OneAppended(Unwrap(docx.styles), GetOrInsert(prev.styles, <<>>))
        /\ lastOp = "insert_style" =>
              Unwrap(docx.styles)[Len(Unwrap(docx.styles))] \in StyleValues
        /\ lastOp = "insert_para" =>
              /\ OneAppended(docx.document, prev.document)
              /\ docx.document[Len(docx.document)] \in Paras
        /\ docx.rels = prev.rels
        /\ docx.document_rels = prev.document_rels
        /\ docx.content_types = prev.content_types
        /\ docx.app = prev.app
        /\ docx.core = prev.core
        /\ docx.font_table = prev.font_table

\* insert_style on an aggregate that holds two styles, graphs with entries
\* and every optional part
C17_Witness ==
    /\ lastOp = "insert_style"
    /\ prev.styles = Some(<<"style_ext", "style_1">>)
    /\ Len(Unwrap(docx.styles)) = 3
    /\ prev.rels # <<>> /\ docx.rels = prev.rels
    /\ IsSome(prev.document_rels)
    /\ IsSome(docx.font_table)

----------------------------------------------------------------------------
(* C18 *)

\* the positions of the entries of now that were appended to before
NewAt(before, now) == (Len(before) + 1)..Len(now)

\* every entry appended to before was appended by add_rel on the entries
\* that precede it in its own graph
OwnIdSequence(before, now) ==
    \A i \in NewAt(before, now) :
        SubSeq(now, 1, i) = add_rel(SubSeq(now, 1, i - 1), now[i].ty, now[i].target)

\* C18: write, successful or failed, changes only the two relationship
\* graphs: app, core, content_types, document, font_table and styles are as
\* they were. The two graphs share no entry and no id sequence: what a write
\* appends to rels is for the app, core and document parts only, what it
\* appends to document_rels is for styles and the font table only, and each
\* new id follows from the entries of its own graph alone.
C18_WriteTouchesGraphsOnly ==
    lastOp = "write" =>
        LET drels == OptRels(docx.document_rels)
            dprev == OptRels(prev.document_rels)
        IN  /\ docx.app = prev.app
            /\ docx.core = prev.core
            /\ docx.content_types = prev.content_types
            /\ docx.document = prev.document
            /\ docx.font_table = prev.font_table
            /\ docx.styles = prev.styles
            /\ IsPrefix(prev.rels, docx.rels)
            /\ IsPrefix(dprev, drels)
            /\ \A i \in NewAt(prev.rels, docx.rels) :
                  docx.rels[i].target \in
                     {"docProps/app.xml", "docProps/core.xml", "word/document.xml"}
            /\ \A i \in NewAt(dprev, drels) :
                  drels[i].target \in {"styles.xml", "fontTable.xml"}
            /\ OwnIdSequence(prev.rels, docx.rels)
            /\ OwnIdSequence(dprev, drels)

\* a write that appends to both graphs: the part-level graph starts at id 1
\* though the package-level graph already holds higher ids
C18_Witness ==
    /\ WroteOk
    /\ IsNone(prev.document_rels)
    /\ Len(prev.rels) >= 2
    /\ Len(docx.rels) > Len(prev.rels)
    /\ IsSome(prev.styles) /\ docx.styles = prev.styles
    /\ IsSome(docx.document_rels)
    /\ Unwrap(docx.document_rels)[1].id = 1

----------------------------------------------------------------------------
(* C19 *)

\* C19: both graphs are append-only under insert_para, insert_style,
\* create_style and write: the entries a graph held before the operation are
\* afterwards a prefix of it, unmodified and in the same order, also when the
\* graphs came from parse and already held entries, and over several writes
\* in a row; a present document_rels stays present. A successful write
\* appends one more office-document entry at the end of rels, so a parsed
\* aggregate that held one holds two.
C19_AppendOnly ==
    /\ Inserted \/ lastOp = "write" =>
          /\ IsPrefix(prev.rels, docx.rels)
          /\ IsPrefix(OptRels(prev.document_rels), OptRels(docx.document_rels))
          /\ IsSome(prev.document_rels) => IsSome(docx.document_rels)
    /\ streak.n >= 1 =>
          /\ IsPrefix(streak.base.rels, docx.rels)
          /\ IsPrefix(OptRels(streak.base.document_rels), OptRels(docx.document_rels))
    /\ WroteOk =>
          /\ CountRel(docx.rels, SCHEMA_OFFICE_DOCUMENT, "word/document.xml")
               = CountRel(prev.rels, SCHEMA_OFFICE_DOCUMENT, "word/document.xml") + 1
          /\ docx.rels[Len(docx.rels)].ty = SCHEMA_OFFICE_DOCUMENT
          /\ docx.rels[Len(docx.rels)].target = "word/document.xml"

\* a write on the aggregate parsed from a package made elsewhere, whose
\* package-level graph holds three entries with ids out of order
C19_Witness ==
    /\ WroteOk
    /\ rres = "ok" /\ pres = "ok"
    /\ Len(prev.rels) = 3
    /\ prev.rels[1].id = 5
    /\ SubSeq(docx.rels, 1, 3) = prev.rels
    /\ CountRel(prev.rels, SCHEMA_OFFICE_DOCUMENT, "word/document.xml") = 1
    /\ CountRel(docx.rels, SCHEMA_OFFICE_DOCUMENT, "word/document.xml") = 2
    /\ Len(OptRels(prev.document_rels)) = 2

====
